---- MODULE Spec2Model ----
(***************************************************************************)
(* Model of the DoH proxy worker (src/index.js): the process-wide          *)
(* performance tracker (performanceCache, updatePerformanceMetrics), the   *)
(* scoring and selection of upstreams (selectBestUpstreams), the race of   *)
(* concurrent attempts (raceDoHRequests, fetchWithTimeout) and the request *)
(* handler that runs the top-3 race and the full-pool fallback (fetch).    *)
(*                                                                         *)
(* Numbers.  successRate is kept in tenths (10 stands for 1, the steps     *)
(* +0.1 and -0.2 are +1 and -2); the rounding error of the binary          *)
(* floating-point steps is not modelled.  A score is kept as an exact      *)
(* fraction, or as Infinity / NaN where the division by a zero successRate *)
(* produces them.                                                          *)
(*                                                                         *)
(* Specifications.  Spec: the handler and its races for two requests.      *)
(* TrackerSpec, ColdTrackerSpec, WarmupSpec: sequences of record calls.    *)
(* ConfigSpec: regions and DOH_UPSTREAMS settings, up to the first race.   *)
(* PayloadSpec: query sizes and the cache.  FlowSpec: selection, race and  *)
(* fallback over a given candidate list.                                   *)
(***************************************************************************)
EXTENDS Integers, Sequences, FiniteSets, TLC

VARIABLES
    performanceCache,   \* Map upstream -> {latencies, successRate, totalRequests}
    nrecords,           \* number of updatePerformanceMetrics calls made so far
    req,                \* per request: where its handler stands, and its response
    race,               \* per request and race (1: top 3, 2: all): the closure state
    edgeCache,          \* caches.default: the cache keys (URLs) that hold a response
    env                 \* env.DOH_UPSTREAMS of this deployment

(***************************************************************************)
(* Program constants                                                       *)
(***************************************************************************)
TIMEOUT == 5000
PERFORMANCE_WINDOW == 100

CF == "cloudflare-dns.com"
GOOGLE == "dns.google"
QUAD9 == "dns.quad9.net"
OPENDNS == "doh.opendns.com"
DNSSB == "doh.dns.sb"

Upstreams == {CF, GOOGLE, QUAD9, OPENDNS, DNSSB}

DEFAULT_UPSTREAMS == <<CF, GOOGLE, QUAD9, OPENDNS>>

REGIONAL_UPSTREAMS ==
    [NA |-> <<CF, GOOGLE>>,
     EU |-> <<CF, QUAD9>>,
     AS |-> <<GOOGLE, CF, DNSSB>>,
     OC |-> <<CF, GOOGLE>>,
     SA |-> <<CF, GOOGLE>>,
     AF |-> <<CF, QUAD9>>]

(***************************************************************************)
(* Bounds of the model                                                     *)
(***************************************************************************)
\* record calls explored after the initial state of the tracker specification
MaxRecords == 7

\* latencies (ms) an attempt can measure
Latencies == {0, 80}

(***************************************************************************)
(* Helpers                                                                 *)
(***************************************************************************)
Min(a, b) == IF a < b THEN a ELSE b
Max(a, b) == IF a > b THEN a ELSE b

RECURSIVE SumSeq(_)
SumSeq(s) == IF s = <<>> THEN 0 ELSE Head(s) + SumSeq(Tail(s))

(***************************************************************************)
(* updatePerformanceMetrics(upstream, latency, success), as a function of  *)
(* the map it updates.                                                     *)
(***************************************************************************)
NewMetrics == [latencies |-> <<>>, successRate |-> 10, totalRequests |-> 0]

\* variant: the push is not followed by the shift of the oldest latency
updatePerformanceMetricsNoShift(cache, upstream, latency, success) ==
    LET base == IF upstream \in DOMAIN cache
                THEN cache
                ELSE cache @@ (upstream :> NewMetrics)
        metrics == base[upstream]
    IN  [base EXCEPT ![upstream] =
            [latencies |-> IF success THEN Append(metrics.latencies, latency)
                           ELSE metrics.latencies,
             successRate |-> IF success
                             THEN Min(metrics.successRate + 1, 10)
                             ELSE Max(metrics.successRate - 2, 0),
             totalRequests |-> metrics.totalRequests + 1]]

\* variant: a failure pushes its latency as a success does
updatePerformanceMetricsPushAlways(cache, upstream, latency, success) ==
    LET base == IF upstream \in DOMAIN cache
                THEN cache
                ELSE cache @@ (upstream :> NewMetrics)
        metrics == base[upstream]
        pushed == Append(metrics.latencies, latency)
        shifted == IF Len(pushed) > PERFORMANCE_WINDOW THEN Tail(pushed) ELSE pushed
        rate == IF success
                THEN Min(metrics.successRate + 1, 10)
                ELSE Max(metrics.successRate - 2, 0)
    IN  [base EXCEPT ![upstream] =
            [latencies |-> shifted,
             successRate |-> rate,
             totalRequests |-> metrics.totalRequests + 1]]

updatePerformanceMetrics(cache, upstream, latency, success) ==
    LET base == IF upstream \in DOMAIN cache
                THEN cache
                ELSE cache @@ (upstream :> NewMetrics)
        metrics == base[upstream]
        pushed == IF success THEN Append(metrics.latencies, latency)
                  ELSE metrics.latencies
        shifted == IF success /\ Len(pushed) > PERFORMANCE_WINDOW
                   THEN Tail(pushed) ELSE pushed
        rate == IF success
                THEN Min(metrics.successRate + 1, 10)
                ELSE Max(metrics.successRate - 2, 0)
    IN  [base EXCEPT ![upstream] =
            [latencies |-> shifted,
             successRate |-> rate,
             totalRequests |-> metrics.totalRequests + 1]]

(***************************************************************************)
(* The score selectBestUpstreams computes for one upstream.                *)
(* kind "num": the fraction n/d (d > 0); "inf": Infinity; "nan": NaN.      *)
(***************************************************************************)
Num(n, d) == [kind |-> "num", n |-> n, d |-> d]
Infinity == [kind |-> "inf", n |-> 1, d |-> 0]
NaN == [kind |-> "nan", n |-> 0, d |-> 0]

\* variant: an upstream without latencies scores 0
ScoreNoSentinel(cache, upstream) ==
    IF upstream \notin DOMAIN cache \/ Len(cache[upstream].latencies) = 0
    THEN Num(0, 1)
    ELSE LET metrics == cache[upstream]
             sum == SumSeq(metrics.latencies)
             len == Len(metrics.latencies)
         IN  IF metrics.successRate = 0
             THEN (IF sum = 0 THEN NaN ELSE Infinity)
             ELSE Num(10 * sum, len * metrics.successRate)

Score(cache, upstream) ==
    IF upstream \notin DOMAIN cache \/ Len(cache[upstream].latencies) = 0
    THEN Num(1000, 1)
    ELSE LET metrics == cache[upstream]
             sum == SumSeq(metrics.latencies)
             len == Len(metrics.latencies)
         IN  \* (sum / len) / (successRate / 10)
             IF metrics.successRate = 0
             THEN (IF sum = 0 THEN NaN ELSE Infinity)
             ELSE Num(10 * sum, len * metrics.successRate)

\* a < b as JavaScript compares two numbers (false when either is NaN)
ScoreLess(a, b) ==
    CASE a.kind = "nan" \/ b.kind = "nan" -> FALSE
      [] a.kind = "inf" -> FALSE
      [] b.kind = "inf" -> TRUE
      [] OTHER -> a.n * b.d < b.n * a.d

(***************************************************************************)
(* getClientRegion, the parse of DOH_UPSTREAMS and the candidate set       *)
(***************************************************************************)
regionMap ==
    [c \in {"US", "CA", "MX"} |-> "NA"] @@
    [c \in {"GB", "DE", "FR", "IT", "ES", "NL", "SE", "NO", "DK", "FI", "PL",
            "CH", "AT", "BE", "IE", "PT", "CZ", "GR", "RO", "HU"} |-> "EU"] @@
    [c \in {"CN", "JP", "KR", "IN", "SG", "TH", "VN", "ID", "MY", "PH", "TW",
            "HK"} |-> "AS"] @@
    [c \in {"AU", "NZ"} |-> "OC"] @@
    [c \in {"BR", "AR", "CL", "CO", "PE"} |-> "SA"] @@
    [c \in {"ZA", "EG", "NG", "KE"} |-> "AF"]

\* variant: a country that is not in the map is returned as the region
getClientRegionNoDefault(country) ==
    LET c == IF country = "" THEN "US" ELSE country
    IN  IF c \in DOMAIN regionMap THEN regionMap[c] ELSE c

\* country "" stands for a request without cf.country
getClientRegion(country) ==
    LET c == IF country = "" THEN "US" ELSE country
    IN  IF c \in DOMAIN regionMap THEN regionMap[c] ELSE "NA"

\* [...new Set(s)]: first occurrences, in order
RECURSIVE Dedup(_)
Dedup(s) ==
    IF s = <<>> THEN <<>>
    ELSE LET init == Dedup(SubSeq(s, 1, Len(s) - 1))
             last == s[Len(s)]
         IN  IF \E i \in 1..Len(init) : init[i] = last THEN init
             ELSE Append(init, last)

\* DOH_UPSTREAMS is modelled by its comma-separated pieces: <<"unset">> is the
\* variable not being set, <<"">> the empty string; a piece " " is blank.
Trim(piece) == IF piece = " " THEN "" ELSE piece

ConfiguredUpstreams(upstreamsStr) ==
    IF upstreamsStr = <<"unset">> \/ upstreamsStr = <<"">>
    THEN DEFAULT_UPSTREAMS
    ELSE LET NonEmpty(u) == Trim(u) # ""
         IN  SelectSeq(upstreamsStr, NonEmpty)

\* variant: the configured upstreams are listed before the regional ones
AllUpstreamsGlobalFirst(country, upstreamsStr) ==
    LET clientRegion == getClientRegion(country)
        regionalUpstreams == IF clientRegion \in DOMAIN REGIONAL_UPSTREAMS
                             THEN REGIONAL_UPSTREAMS[clientRegion] ELSE <<>>
    IN  Dedup(ConfiguredUpstreams(upstreamsStr) \o regionalUpstreams)

AllUpstreams(country, upstreamsStr) ==
    LET clientRegion == getClientRegion(country)
        regionalUpstreams == IF clientRegion \in DOMAIN REGIONAL_UPSTREAMS
                             THEN REGIONAL_UPSTREAMS[clientRegion] ELSE <<>>
    IN  Dedup(regionalUpstreams \o ConfiguredUpstreams(upstreamsStr))

(***************************************************************************)
(* selectBestUpstreams                                                     *)
(***************************************************************************)
\* the sign of a - b as Array.prototype.sort reads the comparator's result:
\* a NaN difference (NaN operand, or Infinity - Infinity) counts as 0
CompareScores(a, b) ==
    CASE a.kind = "nan" \/ b.kind = "nan" -> 0
      [] a.kind = "inf" /\ b.kind = "inf" -> 0
      [] a.kind = "inf" -> 1
      [] b.kind = "inf" -> -1
      [] OTHER -> IF a.n * b.d < b.n * a.d THEN -1
                  ELSE IF a.n * b.d > b.n * a.d THEN 1 ELSE 0

\* the stable ascending sort of the upstreams by score
RECURSIVE SortByScore(_, _)
SortByScore(cache, s) ==
    IF s = <<>> THEN <<>>
    ELSE LET sorted == SortByScore(cache, SubSeq(s, 1, Len(s) - 1))
             x == s[Len(s)]
             pos == Cardinality({i \in 1..Len(sorted) :
                        CompareScores(Score(cache, sorted[i]), Score(cache, x)) <= 0})
         IN  SubSeq(sorted, 1, pos) \o <<x>> \o SubSeq(sorted, pos + 1, Len(sorted))

SeqPermutations(s) ==
    {[i \in 1..Len(s) |-> s[f[i]]] :
        f \in {g \in [1..Len(s) -> 1..Len(s)] :
                 \A i, j \in 1..Len(s) : i # j => g[i] # g[j]}}

\* a NaN score compares equal to two scores that differ: the comparator is
\* then not consistent and the order sort() produces is implementation-defined
ConsistentComparator(cache, s) ==
    \A i, j, k \in 1..Len(s) :
        LET a == Score(cache, s[i])
            b == Score(cache, s[j])
            c == Score(cache, s[k])
        IN  CompareScores(a, b) = 0 /\ CompareScores(b, c) = 0
                => CompareScores(a, c) = 0

\* the results selectBestUpstreams(upstreams, count) can return: one, unless
\* the comparator is inconsistent
selectBestUpstreams(cache, upstreams, count) ==
    LET orders == IF ConsistentComparator(cache, upstreams)
                  THEN {SortByScore(cache, upstreams)}
                  ELSE SeqPermutations(upstreams)
    IN  {SubSeq(o, 1, Min(count, Len(o))) : o \in orders}

(***************************************************************************)
(* raceDoHRequests: the closure state of one race.                         *)
(*   upstreams, resolved, failedCount: as in the code                      *)
(*   status[i]: the attempt for upstreams[i]: "pending" until its          *)
(*       fetchWithTimeout returns or throws, then "ok" (an OK response)    *)
(*       or "failed" (a response that is not OK, or an error)              *)
(*   promise: the promise the race returns; timer: the overall timer       *)
(*   reports[i]: the success flags of the updatePerformanceMetrics calls   *)
(*       made for attempt i; firstOk, firstOkLatency: the first attempt    *)
(*       to complete with an OK response (history, not read by the code)   *)
(***************************************************************************)
\* A promise is fulfilled with the response of the winning attempt (its ok flag
\* and the X-Upstream and X-Latency headers set on it; headers.set is taken to
\* succeed) or rejected with an Error (its message).
IdlePromise ==
    [state |-> "idle", ok |-> FALSE, upstream |-> "", latency |-> 0, error |-> ""]
PendingPromise ==
    [state |-> "pending", ok |-> FALSE, upstream |-> "", latency |-> 0, error |-> ""]
Fulfilled(upstream, latency) ==
    [state |-> "fulfilled", ok |-> TRUE, upstream |-> upstream, latency |-> latency,
     error |-> ""]
Rejected(message) ==
    [state |-> "rejected", ok |-> FALSE, upstream |-> "", latency |-> 0,
     error |-> message]

\* variant: a later resolve / reject replaces the outcome
SettleLast(promise, outcome) == outcome

\* resolve / reject of a promise: only the first call settles it
Settle(promise, outcome) ==
    IF promise.state = "pending" THEN outcome ELSE promise

NoRace ==
    [upstreams |-> <<>>, status |-> <<>>, reports |-> <<>>, resolved |-> FALSE,
     failedCount |-> 0, promise |-> IdlePromise, timer |-> "none",
     firstOk |-> 0, firstOkLatency |-> 0]

raceDoHRequests(upstreams) ==
    IF Len(upstreams) = 0
    THEN [NoRace EXCEPT !.promise = Rejected("No upstreams available")]
    ELSE [upstreams |-> upstreams,
          status |-> [i \in 1..Len(upstreams) |-> "pending"],
          reports |-> [i \in 1..Len(upstreams) |-> <<>>],
          resolved |-> FALSE,
          failedCount |-> 0,
          promise |-> PendingPromise,
          timer |-> "armed",
          firstOk |-> 0, firstOkLatency |-> 0]

\* variant: the OK branch does not test resolved
OnResponseEveryOk(rc, cache, i, ok, latency) ==
    LET upstream == rc.upstreams[i]
        seen == [rc EXCEPT !.status[i] = IF ok THEN "ok" ELSE "failed",
                           !.firstOk = IF ok /\ @ = 0 THEN i ELSE @,
                           !.firstOkLatency = IF ok /\ rc.firstOk = 0 THEN latency ELSE @]
    IN  IF ok
        THEN [rc |-> [seen EXCEPT !.resolved = TRUE,
                                  !.reports[i] = Append(@, TRUE),
                                  !.promise = Settle(@, Fulfilled(upstream, latency))],
              cache |-> updatePerformanceMetrics(cache, upstream, latency, TRUE),
              calls |-> 1]
        ELSE [rc |-> [seen EXCEPT !.reports[i] = Append(@, FALSE),
                                  !.failedCount = @ + 1],
              cache |-> updatePerformanceMetrics(cache, upstream, latency, FALSE),
              calls |-> 1]

\* attempt i got a response (ok: its status is OK), latency ms after its start
OnResponse(rc, cache, i, ok, latency) ==
    LET upstream == rc.upstreams[i]
        seen == [rc EXCEPT !.status[i] = IF ok THEN "ok" ELSE "failed",
                           !.firstOk = IF ok /\ @ = 0 THEN i ELSE @,
                           !.firstOkLatency = IF ok /\ rc.firstOk = 0 THEN latency ELSE @]
    IN  IF ~rc.resolved /\ ok
        THEN [rc |-> [seen EXCEPT !.resolved = TRUE,
                                  !.reports[i] = Append(@, TRUE),
                                  !.promise = Settle(@, Fulfilled(upstream, latency))],
              cache |-> updatePerformanceMetrics(cache, upstream, latency, TRUE),
              calls |-> 1]
        ELSE IF ~ok
        THEN [rc |-> [seen EXCEPT !.reports[i] = Append(@, FALSE),
                                  !.failedCount = @ + 1],
              cache |-> updatePerformanceMetrics(cache, upstream, latency, FALSE),
              calls |-> 1]
        ELSE [rc |-> seen, cache |-> cache, calls |-> 0]

\* variant: an error after the race resolved is dropped without a record
OnErrorUnlessResolved(rc, cache, i) ==
    LET upstream == rc.upstreams[i]
        failed == rc.failedCount + 1
    IN  IF rc.resolved
        THEN [rc |-> [rc EXCEPT !.status[i] = "failed"], cache |-> cache, calls |-> 0]
        ELSE [rc |-> [rc EXCEPT !.status[i] = "failed",
                                !.reports[i] = Append(@, FALSE),
                                !.failedCount = failed,
                                !.promise = IF failed = Len(rc.upstreams)
                                            THEN Settle(@, Rejected("All upstreams failed"))
                                            ELSE @],
              cache |-> updatePerformanceMetrics(cache, upstream, TIMEOUT, FALSE),
              calls |-> 1]

\* fetchWithTimeout of attempt i threw (network error, or the abort at TIMEOUT)
OnError(rc, cache, i) ==
    LET upstream == rc.upstreams[i]
        failed == rc.failedCount + 1
    IN  [rc |-> [rc EXCEPT !.status[i] = "failed",
                           !.reports[i] = Append(@, FALSE),
                           !.failedCount = failed,
                           !.promise = IF ~rc.resolved /\ failed = Len(rc.upstreams)
                                       THEN Settle(@, Rejected("All upstreams failed"))
                                       ELSE @],
         cache |-> updatePerformanceMetrics(cache, upstream, TIMEOUT, FALSE),
         calls |-> 1]

\* variant: the timer rejects only while some attempt has not failed
OnDeadlineUnlessAllFailed(rc) ==
    [rc EXCEPT !.timer = "fired",
               !.promise = IF ~rc.resolved /\ rc.failedCount < Len(rc.upstreams)
                           THEN Settle(@, Rejected("All requests timed out"))
                           ELSE @]

\* the overall timer (TIMEOUT + 1000) fires
OnDeadline(rc) ==
    [rc EXCEPT !.timer = "fired",
               !.promise = IF ~rc.resolved
                           THEN Settle(@, Rejected("All requests timed out"))
                           ELSE @]

(***************************************************************************)
(* The request handler (fetch)                                             *)
(***************************************************************************)
\* the requests, in their order of arrival
Reqs == {1, 2}

NoResponse ==
    [status |-> 0, body |-> "", xCache |-> "", xUpstream |-> "", xLatency |-> ""]
TextResponse(status, body) ==
    [status |-> status, body |-> body, xCache |-> "", xUpstream |-> "", xLatency |-> ""]

IdleRequest ==
    [pc |-> "idle", url |-> <<>>, isGetRequest |-> FALSE, dnsQuery |-> 0,
     clientRegion |-> "", allUpstreams |-> <<>>, response |-> NoResponse]

\* the dns parameter: absent, or n characters, all of the base64url alphabet or not
NoParam == [present |-> FALSE, chars |-> 0, alphabet |-> TRUE]
Param(chars, alphabet) == [present |-> TRUE, chars |-> chars, alphabet |-> alphabet]

\* base64urlDecode: atob throws on a character outside the alphabet and on a
\* length that is 1 modulo 4; otherwise every 4 characters give 3 bytes
base64urlDecodeThrows(dnsParam) == ~dnsParam.alphabet \/ dnsParam.chars % 4 = 1
base64urlDecodeLength(dnsParam) == (dnsParam.chars * 3) \div 4

\* lines 52-146: the checks before the cache lookup; the request either gets its
\* response at once or waits for cache.match
Accept(method, pathname, dnsParam, contentTypeOk, bodyLength, country, upstreamsStr) ==
    LET Reply(status, body) == [IdleRequest EXCEPT !.pc = "done",
                                    !.response = TextResponse(status, body)]
        Lookup(isGet, length) ==
            [pc |-> "matching", url |-> <<pathname, dnsParam>>,
             isGetRequest |-> isGet, dnsQuery |-> length,
             clientRegion |-> getClientRegion(country),
             allUpstreams |-> AllUpstreams(country, upstreamsStr),
             response |-> NoResponse]
    IN  IF method = "OPTIONS" THEN Reply(204, "")
        ELSE IF pathname # "/dns-query"
        THEN Reply(404, "DoH Proxy - Use /dns-query endpoint")
        ELSE IF method = "GET"
        THEN IF ~dnsParam.present \/ dnsParam.chars = 0
             THEN Reply(400, "Missing dns parameter")
             ELSE IF base64urlDecodeThrows(dnsParam)
             THEN Reply(400, "Invalid dns parameter encoding")
             ELSE Lookup(TRUE, base64urlDecodeLength(dnsParam))
        ELSE IF method = "POST"
        THEN IF ~contentTypeOk
             THEN Reply(400, "Invalid Content-Type. Must be application/dns-message")
             ELSE IF bodyLength = 0 \/ bodyLength > 512
             THEN Reply(400, "Invalid DNS message size")
             ELSE Lookup(FALSE, bodyLength)
        ELSE Reply(405, "Method not allowed. Use GET or POST")

\* variant: the cache key tells the payloads of the requests to a URL apart
CacheKeyWithPayload(request) == <<request.url, request.dnsQuery>>

\* lines 143-144: the cache key is a GET request for the URL of the request
CacheKey(request) == request.url

\* lines 171-183: the response built from the race's response
DohResponse(promise) ==
    [status |-> 200, body |-> "dns-message", xCache |-> "MISS",
     xUpstream |-> IF promise.upstream = "" THEN "unknown" ELSE promise.upstream,
     xLatency |-> ""]

\* variant: the catch block answers a rejected top-3 race at once, without the
\* race over all upstreams
ContinueWithoutFallback(request, k, promise, cached) ==
    IF promise.state = "fulfilled" /\ ~promise.ok
    THEN [request |-> [request EXCEPT !.pc = "done",
              !.response = TextResponse(502, "All upstream DoH servers failed")],
          fallback |-> NoRace, cached |-> cached]
    ELSE IF promise.state = "fulfilled"
    THEN [request |-> [request EXCEPT !.pc = "done", !.response = DohResponse(promise)],
          fallback |-> NoRace,
          cached |-> (CacheKey(request) :> DohResponse(promise)) @@ cached]
    ELSE [request |-> [request EXCEPT !.pc = "done",
              !.response = TextResponse(500, promise.error)],
          fallback |-> NoRace, cached |-> cached]

\* lines 157-196: what the handler does with the outcome of race k of request r:
\* a response makes the answer (502 when it is not OK), a rejection of race 1
\* starts race 2 in the catch block, a rejection of race 2 leaves that block as
\* an exception, which the outer catch answers with 500.  The result gives the
\* request, race 2 (when launched) and the cache after cache.put.
Continue(request, k, promise, cached) ==
    IF promise.state = "fulfilled" /\ ~promise.ok
    THEN [request |-> [request EXCEPT !.pc = "done",
              !.response = TextResponse(502, "All upstream DoH servers failed")],
          fallback |-> NoRace, cached |-> cached]
    ELSE IF promise.state = "fulfilled"
    THEN [request |-> [request EXCEPT !.pc = "done", !.response = DohResponse(promise)],
          fallback |-> NoRace,
          cached |-> (CacheKey(request) :> DohResponse(promise)) @@ cached]
    ELSE IF k = 1
    THEN LET second == raceDoHRequests(request.allUpstreams)
         IN  IF second.promise.state = "rejected"
             THEN [request |-> [request EXCEPT !.pc = "done",
                       !.response = TextResponse(500, second.promise.error)],
                   fallback |-> second, cached |-> cached]
             ELSE [request |-> [request EXCEPT !.pc = "race2"],
                   fallback |-> second, cached |-> cached]
    ELSE [request |-> [request EXCEPT !.pc = "done",
              !.response = TextResponse(500, promise.error)],
          fallback |-> NoRace, cached |-> cached]

(***************************************************************************)
(* Inputs of the model                                                     *)
(***************************************************************************)
DnsParams == {NoParam, Param(0, TRUE), Param(4, TRUE), Param(4, FALSE), Param(5, TRUE)}
BodyLengths == {0, 1, 513}
Countries == {"", "ZZ"}
EnvUpstreams == {<<"unset">>, <<" ", "">>}

Input(method, pathname, dnsParam, contentTypeOk, bodyLength) ==
    [method |-> method, pathname |-> pathname, dnsParam |-> dnsParam,
     contentTypeOk |-> contentTypeOk, bodyLength |-> bodyLength]

Inputs ==
    {Input("GET", "/dns-query", p, FALSE, 0) : p \in DnsParams}
    \cup {Input("POST", "/dns-query", NoParam, c, n) : c \in BOOLEAN, n \in BodyLengths}
    \cup {Input("OPTIONS", "/dns-query", NoParam, FALSE, 0),
          Input("PUT", "/dns-query", NoParam, FALSE, 0),
          Input("GET", "/", Param(4, TRUE), FALSE, 0)}

(***************************************************************************)
(* Actions                                                                 *)
(***************************************************************************)
vars == <<performanceCache, nrecords, req, race, edgeCache, env>>

Init ==
    /\ performanceCache = <<>>
    /\ nrecords = 0
    /\ req = [r \in Reqs |-> IdleRequest]
    /\ race = [r \in Reqs |-> [k \in {1, 2} |-> NoRace]]
    /\ edgeCache = <<>>
    /\ env \in EnvUpstreams

Pending(r, k) == {i \in 1..Len(race[r][k].upstreams) : race[r][k].status[i] = "pending"}

\* request r was answered and its races have nothing left to run
Quiet(r) ==
    /\ req[r].pc = "done"
    /\ \A k \in {1, 2} : Pending(r, k) = {} /\ race[r][k].timer # "armed"

\* The model admits a request once the requests before it are quiet: races of
\* different requests share the tracker only, and the tracker specification
\* below covers every interleaving of their record calls.
Admit(r, inputs, countries) ==
    /\ req[r].pc = "idle"
    /\ \A q \in Reqs : q < r => Quiet(q)
    /\ \E input \in inputs, country \in countries :
            req' = [req EXCEPT ![r] = Accept(input.method, input.pathname,
                        input.dnsParam, input.contentTypeOk, input.bodyLength,
                        country, env)]
    /\ UNCHANGED <<performanceCache, nrecords, race, edgeCache, env>>

Receive(r) == Admit(r, Inputs, Countries)

\* lines 146-158: cache.match answered; on a miss the top 3 are selected and raced
CacheMatched(r) ==
    /\ req[r].pc = "matching"
    /\ IF CacheKey(req[r]) \in DOMAIN edgeCache
       THEN /\ req' = [req EXCEPT ![r].pc = "done",
                           ![r].response =
                               [edgeCache[CacheKey(req[r])] EXCEPT !.xCache = "HIT"]]
            /\ UNCHANGED race
       ELSE \E selectedUpstreams \in
                  selectBestUpstreams(performanceCache, req[r].allUpstreams, 3) :
              LET first == raceDoHRequests(selectedUpstreams)
                  next == Continue(req[r], 1, first.promise, edgeCache)
              IN  IF first.promise.state = "rejected"
                  THEN /\ req' = [req EXCEPT ![r] = next.request]
                       /\ race' = [race EXCEPT ![r][1] = first, ![r][2] = next.fallback]
                  ELSE /\ req' = [req EXCEPT ![r].pc = "race1"]
                       /\ race' = [race EXCEPT ![r][1] = first]
    /\ UNCHANGED <<performanceCache, nrecords, edgeCache, env>>

\* race k of request r moves to rc; when that settles its promise, the handler
\* awaiting it continues
Step(r, k, rc) ==
    /\ UNCHANGED env
    /\ IF race[r][k].promise.state = "pending" /\ rc.promise.state # "pending"
       THEN LET next == Continue(req[r], k, rc.promise, edgeCache)
            IN  /\ req' = [req EXCEPT ![r] = next.request]
                /\ race' = IF k = 1
                           THEN [race EXCEPT ![r][1] = rc, ![r][2] = next.fallback]
                           ELSE [race EXCEPT ![r][2] = rc]
                /\ edgeCache' = next.cached
       ELSE /\ race' = [race EXCEPT ![r][k] = rc]
            /\ UNCHANGED <<req, edgeCache>>

AttemptResponse(r, k) ==
    \E i \in Pending(r, k), ok \in BOOLEAN, latency \in Latencies :
        LET out == OnResponse(race[r][k], performanceCache, i, ok, latency)
        IN  /\ performanceCache' = out.cache
            /\ nrecords' = nrecords + out.calls
            /\ Step(r, k, out.rc)

AttemptNetworkError(r, k) ==
    \E i \in Pending(r, k) :
        LET out == OnError(race[r][k], performanceCache, i)
        IN  /\ performanceCache' = out.cache
            /\ nrecords' = nrecords + out.calls
            /\ Step(r, k, out.rc)

\* the timer of fetchWithTimeout fires: abort, and fetch throws.  The timers of
\* a race were set in the order of its upstreams and fire in that order.
AttemptTimeout(r, k) ==
    \E i \in Pending(r, k) :
        /\ \A j \in Pending(r, k) : i <= j
        /\ LET out == OnError(race[r][k], performanceCache, i)
           IN  /\ performanceCache' = out.cache
               /\ nrecords' = nrecords + out.calls
               /\ Step(r, k, out.rc)

\* the overall timer fires after the timers of the attempts (TIMEOUT + 1000 >
\* TIMEOUT), each of which ended its attempt if it was still pending
DeadlineTimer(r, k) ==
    /\ race[r][k].timer = "armed"
    /\ Pending(r, k) = {}
    /\ Step(r, k, OnDeadline(race[r][k]))
    /\ UNCHANGED <<performanceCache, nrecords>>

Next ==
    \E r \in Reqs :
        \/ Receive(r)
        \/ CacheMatched(r)
        \/ \E k \in {1, 2} :
            \/ AttemptResponse(r, k)
            \/ AttemptNetworkError(r, k)
            \/ AttemptTimeout(r, k)
            \/ DeadlineTimer(r, k)

Spec == Init /\ [][Next]_vars

(***************************************************************************)
(* Tracker specification: any sequence of record calls, which is what any  *)
(* interleaving of attempts of any number of races amounts to for the map. *)
(* It starts from the empty map or from the map after a run of successful  *)
(* requests to one upstream.                                               *)
(***************************************************************************)
WarmLatency(i) == IF i % 2 = 1 THEN 0 ELSE 80

\* the map after n successful requests to upstream, from the empty map: each
\* appends its latency (n <= PERFORMANCE_WINDOW: nothing is shifted out), keeps
\* successRate at min(1 + 0.1, 1) and counts one request
Replay(upstream, n) ==
    IF n = 0 THEN <<>>
    ELSE upstream :> [latencies |-> [i \in 1..n |-> WarmLatency(i)],
                      successRate |-> 10,
                      totalRequests |-> n]

WarmRuns == {0, PERFORMANCE_WINDOW - 1, PERFORMANCE_WINDOW}

TrackerInit ==
    /\ \E n \in WarmRuns : performanceCache = Replay(CF, n)
    /\ nrecords = 0
    /\ req = [r \in Reqs |-> IdleRequest]
    /\ race = [r \in Reqs |-> [k \in {1, 2} |-> NoRace]]
    /\ edgeCache = <<>>
    /\ env = <<"unset">>

Record(upstream, latency, success) ==
    /\ nrecords < MaxRecords
    /\ performanceCache' =
           updatePerformanceMetrics(performanceCache, upstream, latency, success)
    /\ nrecords' = nrecords + 1
    /\ UNCHANGED <<req, race, edgeCache, env>>

RecordSuccess == \E u \in {CF, GOOGLE}, l \in Latencies : Record(u, l, TRUE)
RecordFailure == \E u \in {CF, GOOGLE}, l \in Latencies \cup {TIMEOUT} : Record(u, l, FALSE)

TrackerNext == RecordSuccess \/ RecordFailure

TrackerSpec == TrackerInit /\ [][TrackerNext]_vars

\* the same record calls, from the empty map of a fresh isolate only
ColdTrackerInit ==
    /\ performanceCache = <<>>
    /\ nrecords = 0
    /\ req = [r \in Reqs |-> IdleRequest]
    /\ race = [r \in Reqs |-> [k \in {1, 2} |-> NoRace]]
    /\ edgeCache = <<>>
    /\ env = <<"unset">>

ColdTrackerSpec == ColdTrackerInit /\ [][TrackerNext]_vars

(***************************************************************************)
(* Configuration specification: the handler up to the launch of the first  *)
(* race (lines 50-158), for clients of every region under several settings *)
(* of DOH_UPSTREAMS and several states of the tracker.  The upstreams do   *)
(* not answer here.                                                        *)
(***************************************************************************)
ConfigCountries == {"", "ZZ", "US", "DE", "JP", "AU", "BR", "ZA"}

ConfigEnvs ==
    {<<"unset">>, <<"">>, <<" ", "">>, <<CF, CF>>, <<QUAD9, DNSSB>>,
     <<DNSSB, " ", GOOGLE>>}

ConfigInputs ==
    {Input("GET", "/dns-query", Param(4, TRUE), FALSE, 0),
     Input("POST", "/dns-query", NoParam, TRUE, 1),
     Input("OPTIONS", "/dns-query", NoParam, FALSE, 0)}

ConfigInit ==
    /\ performanceCache \in {Replay(u, n) : u \in {CF, QUAD9}, n \in {0, 1}}
    /\ nrecords = 0
    /\ req = [r \in Reqs |-> IdleRequest]
    /\ race = [r \in Reqs |-> [k \in {1, 2} |-> NoRace]]
    /\ edgeCache = <<>>
    /\ env \in ConfigEnvs

ReceiveConfig(r) == Admit(r, ConfigInputs, ConfigCountries)

ConfigNext == \E r \in Reqs : ReceiveConfig(r) \/ CacheMatched(r)

ConfigSpec == ConfigInit /\ [][ConfigNext]_vars

(***************************************************************************)
(* Payload specification: the handler and its races for GET and POST       *)
(* queries of several sizes, in a deployment whose DOH_UPSTREAMS names one *)
(* upstream.                                                               *)
(***************************************************************************)
PayloadInputs ==
    {Input("GET", "/dns-query", Param(684, TRUE), FALSE, 0)}
    \cup {Input("POST", "/dns-query", NoParam, TRUE, n) : n \in {0, 1, 512, 513}}

PayloadInit ==
    /\ performanceCache = <<>>
    /\ nrecords = 0
    /\ req = [r \in Reqs |-> IdleRequest]
    /\ race = [r \in Reqs |-> [k \in {1, 2} |-> NoRace]]
    /\ edgeCache = <<>>
    /\ env = <<CF>>

ReceivePayload(r) == Admit(r, PayloadInputs, Countries)

PayloadNext ==
    \E r \in Reqs :
        \/ ReceivePayload(r)
        \/ CacheMatched(r)
        \/ \E k \in {1, 2} :
            \/ AttemptResponse(r, k)
            \/ AttemptNetworkError(r, k)
            \/ AttemptTimeout(r, k)
            \/ DeadlineTimer(r, k)

PayloadSpec == PayloadInit /\ [][PayloadNext]_vars

(***************************************************************************)
(* Flow specification: lines 154-162 applied to a candidate list that is   *)
(* an input, the empty list included.  The handler never builds an empty   *)
(* list itself (see C20); this is the selection, the race and the catch    *)
(* block called on their own.                                              *)
(***************************************************************************)
CandidateLists == {<<>>, <<CF>>, <<GOOGLE, CF>>}

FlowInit ==
    /\ performanceCache = <<>>
    /\ nrecords = 0
    /\ \E candidates \in [Reqs -> CandidateLists] :
          req = [r \in Reqs |->
                    [pc |-> "matching", url |-> <<"/dns-query", Param(4, TRUE)>>,
                     isGetRequest |-> TRUE,
                     dnsQuery |-> base64urlDecodeLength(Param(4, TRUE)),
                     clientRegion |-> getClientRegion(""),
                     allUpstreams |-> candidates[r],
                     response |-> NoResponse]]
    /\ race = [r \in Reqs |-> [k \in {1, 2} |-> NoRace]]
    /\ edgeCache = <<>>
    /\ env = <<"unset">>

FlowNext ==
    \E r \in Reqs :
        \/ CacheMatched(r)
        \/ \E k \in {1, 2} :
            \/ AttemptResponse(r, k)
            \/ AttemptNetworkError(r, k)
            \/ AttemptTimeout(r, k)
            \/ DeadlineTimer(r, k)

FlowSpec == FlowInit /\ [][FlowNext]_vars

(***************************************************************************)
(* Warm-up specification: from the empty map, upstream P only succeeds,    *)
(* with latencies of 20 and 80 ms that keep the sum within 30 ms of an     *)
(* average of 50 ms, and upstream Q only fails.                            *)
(***************************************************************************)
WarmupRequests == 20

P == CF
Q == GOOGLE

\* the sum of the latencies recorded for P, less 50 ms for each
Deviation ==
    IF P \in DOMAIN performanceCache
    THEN SumSeq(performanceCache[P].latencies) - 50 * Len(performanceCache[P].latencies)
    ELSE 0

Warmup(upstream, latency, success) ==
    /\ nrecords < WarmupRequests
    /\ performanceCache' =
           updatePerformanceMetrics(performanceCache, upstream, latency, success)
    /\ nrecords' = nrecords + 1
    /\ UNCHANGED <<req, race, edgeCache, env>>

RecordP ==
    \E l \in {20, 80} :
        /\ Deviation + l - 50 \in {-30, 0, 30}
        /\ Warmup(P, l, TRUE)

RecordQ == \E l \in {80, TIMEOUT} : Warmup(Q, l, FALSE)

WarmupNext == RecordP \/ RecordQ

WarmupSpec == ColdTrackerInit /\ [][WarmupNext]_vars

(***************************************************************************)
(* Properties                                                              *)
(***************************************************************************)
Started(r, k) == Len(race[r][k].upstreams) > 0
Attempts(r, k) == 1..Len(race[r][k].upstreams)
AllFailed == Rejected("All upstreams failed")
TimedOut == Rejected("All requests timed out")
Settled(promise) == promise.state \in {"fulfilled", "rejected"}

\* the updatePerformanceMetrics calls made for upstream u by all attempts
ReportsFor(u) ==
    {x \in Reqs \X {1, 2} \X (1..Cardinality(Upstreams)) \X {1, 2} :
        /\ x[3] \in Attempts(x[1], x[2])
        /\ race[x[1]][x[2]].upstreams[x[3]] = u
        /\ x[4] <= Len(race[x[1]][x[2]].reports[x[3]])}

\* C1: after any sequence of record calls every upstream's successRate is
\* within [0, 1] (0..10 tenths) and its latencies hold at most 100 entries.
C1_RateAndWindowBounded ==
    \A u \in DOMAIN performanceCache :
        /\ performanceCache[u].successRate >= 0
        /\ performanceCache[u].successRate <= 10
        /\ Len(performanceCache[u].latencies) <= PERFORMANCE_WINDOW

\* a full window after more successes than it holds, and a successRate at 0
C1_Witness ==
    \E u \in DOMAIN performanceCache :
        /\ Len(performanceCache[u].latencies) = PERFORMANCE_WINDOW
        /\ performanceCache[u].totalRequests > PERFORMANCE_WINDOW + 1
        /\ performanceCache[u].successRate = 0

\* C2: a race is resolved with Success exactly for the first attempt, in
\* completion order, that completes with an OK response, with that attempt's
\* upstream and latency, whatever its rank; no other OK completion is honored
\* (none is recorded as a success).
C2_FirstOkWins ==
    \A r \in Reqs, k \in {1, 2} :
        LET rc == race[r][k]
        IN  /\ rc.firstOk # 0 =>
                   rc.promise = Fulfilled(rc.upstreams[rc.firstOk], rc.firstOkLatency)
            /\ rc.promise.state = "fulfilled" => rc.firstOk # 0
            /\ \A i \in Attempts(r, k) :
                   (\E j \in 1..Len(rc.reports[i]) : rc.reports[i][j]) => i = rc.firstOk

\* the last-ranked attempt of a top-3 race won, the first-ranked was OK later
C2_Witness ==
    \E r \in Reqs :
        /\ race[r][1].firstOk = 3
        /\ race[r][1].status[1] = "ok"
        /\ race[r][1].promise = Fulfilled(race[r][1].upstreams[3], race[r][1].firstOkLatency)
        /\ req[r].response.xUpstream = race[r][1].upstreams[3]

\* C3: a race whose attempts all ended without success is resolved AllFailed
\* when the last of them ends, and AllFailed is the outcome only of a race
\* whose attempts all ended in failure.
C3_AllFailedAtLastFailure ==
    \A r \in Reqs, k \in {1, 2} :
        Started(r, k) =>
            /\ (\A i \in Attempts(r, k) : race[r][k].status[i] = "failed")
                   => race[r][k].promise = AllFailed
            /\ race[r][k].promise = AllFailed
                   => \A i \in Attempts(r, k) : race[r][k].status[i] = "failed"

\* C4: an attempt that completes after its race resolved has its result
\* reported by exactly one updatePerformanceMetrics call.
C4_LateResultReportedOnce ==
    [][\A r \in Reqs, k \in {1, 2} : \A i \in Attempts(r, k) :
          (/\ Settled(race[r][k].promise)
           /\ race[r][k].status[i] = "pending"
           /\ race'[r][k].status[i] # "pending")
              => Len(race'[r][k].reports[i]) = 1]_vars

\* C5: when the top-3 race and the fallback race both end without success the
\* handler answers 502 'All upstream DoH servers failed'.
C5_TotalFailureIs502 ==
    \A r \in Reqs :
        (race[r][1].promise.state = "rejected" /\ race[r][2].promise.state = "rejected")
            => /\ req[r].pc = "done"
               /\ req[r].response.status = 502
               /\ req[r].response.body = "All upstream DoH servers failed"

\* C6: an upstream without a record scores 1000, strictly less than any
\* upstream whose successRate has decayed to 0.
C6_SentinelBelowDecayed ==
    \A u \in Upstreams :
        /\ u \notin DOMAIN performanceCache => Score(performanceCache, u) = Num(1000, 1)
        /\ (u \in DOMAIN performanceCache /\ performanceCache[u].successRate = 0)
               => ScoreLess(Num(1000, 1), Score(performanceCache, u))

\* C7: the score never divides by a successRate of 0: every score is a number.
C7_NoDivisionByZero ==
    \A u \in Upstreams :
        /\ (u \in DOMAIN performanceCache /\ Len(performanceCache[u].latencies) > 0)
               => performanceCache[u].successRate # 0
        /\ Score(performanceCache, u).kind = "num"

\* C8 as stated: once the overall deadline has passed without an attempt having
\* succeeded, the outcome of the race is Timeout.
C8_TimeoutAtDeadline ==
    \A r \in Reqs, k \in {1, 2} :
        (race[r][k].timer = "fired" /\ race[r][k].firstOk = 0)
            => race[r][k].promise = TimedOut

\* C8 amended: the overall timer resolves a race that is still unresolved as
\* Timeout and leaves a resolved race its outcome; no race is unresolved once
\* its timer has fired.
C8_DeadlineSettlesRace ==
    /\ [](\A r \in Reqs, k \in {1, 2} :
            race[r][k].timer = "fired" => Settled(race[r][k].promise))
    /\ [][\A r \in Reqs, k \in {1, 2} :
            (race[r][k].timer = "armed" /\ race'[r][k].timer = "fired")
                => race'[r][k].promise =
                       IF race[r][k].promise.state = "pending"
                       THEN TimedOut ELSE race[r][k].promise]_vars

\* the timer resolved a race whose attempts had all ended
C8_Witness ==
    \E r \in Reqs :
        /\ race[r][1].timer = "fired"
        /\ race[r][1].promise = TimedOut
        /\ race[r][1].failedCount = Len(race[r][1].upstreams)

C10_FailureRecordedOnce ==
    /\ \A r \in Reqs, k \in {1, 2} : \A i \in Attempts(r, k) :
          race[r][k].status[i] = "failed" =>
              /\ race[r][k].reports[i] = <<FALSE>>
              /\ race[r][k].firstOk # i
              /\ race[r][k].promise.state = "fulfilled"
                     => race[r][k].promise.upstream # race[r][k].upstreams[i]
    /\ \A u \in Upstreams :
          Cardinality(ReportsFor(u)) =
              IF u \in DOMAIN performanceCache
              THEN performanceCache[u].totalRequests ELSE 0

\* a race over three upstreams where only the second succeeded
C10_Witness ==
    \E r \in Reqs :
        /\ race[r][1].status = <<"failed", "ok", "failed">>
        /\ race[r][1].reports = <<(<<FALSE>>), (<<TRUE>>), (<<FALSE>>)>>
        /\ race[r][1].promise.upstream = race[r][1].upstreams[2]

\* a sequence that names no element twice
NoRepeat(s) == \A i, j \in 1..Len(s) : s[i] = s[j] => i = j

\* C11: a query runs at most two races: the first over the top-3 selection
\* and, exactly when that race was rejected, a second over the whole
\* deduplicated candidate set, the upstreams of the first race included;
\* nothing is retried after the second race, no race names an upstream twice,
\* and the attempts of a query number at most 3 plus the size of the set.
C11_SingleEscalation ==
    \A r \in Reqs :
        LET first == race[r][1]
            second == race[r][2]
            all == req[r].allUpstreams
        IN  /\ Started(r, 1) =>
                  /\ Len(first.upstreams) = Min(3, Len(all))
                  /\ \A i \in Attempts(r, 1) : \E j \in 1..Len(all) :
                         all[j] = first.upstreams[i]
            /\ (first.promise.state = "rejected") <=> Started(r, 2)
            /\ first.promise.state # "rejected" => second = NoRace
            /\ Started(r, 2) => second.upstreams = all
            /\ NoRepeat(first.upstreams) /\ NoRepeat(second.upstreams)
            /\ \A k \in {1, 2} : \A i \in Attempts(r, k) : Len(race[r][k].reports[i]) <= 1
            /\ Len(first.upstreams) + Len(second.upstreams) <= 3 + Len(all)
            /\ second.promise.state = "rejected" => req[r].pc = "done"

\* an upstream that failed in the top-3 race won the race over all upstreams
C11_Witness ==
    \E r \in Reqs : \E i \in Attempts(r, 1), j \in Attempts(r, 2) :
        /\ race[r][1].status[i] = "failed"
        /\ race[r][2].upstreams[j] = race[r][1].upstreams[i]
        /\ race[r][2].firstOk = j
        /\ Len(race[r][1].upstreams) + Len(race[r][2].upstreams) = 3 + Len(req[r].allUpstreams)
        /\ req[r].response.xUpstream = race[r][1].upstreams[i]

\* C12: one record call changes the record of one upstream only (a record
\* not seen before starts at successRate 1, no latencies, totalRequests 0):
\* totalRequests grows by 1; a success appends its latency, dropping the
\* oldest entry when the window of 100 is full, and raises successRate by 0.1
\* up to 1; a failure leaves the latencies and lowers successRate by 0.2
\* down to 0.
C12_RecordMatchesReference ==
    [][\E u \in Upstreams :
          LET old == IF u \in DOMAIN performanceCache
                     THEN performanceCache[u]
                     ELSE [latencies |-> <<>>, successRate |-> 10, totalRequests |-> 0]
              new == performanceCache'[u]
              n == Len(old.latencies)
          IN  /\ DOMAIN performanceCache' = DOMAIN performanceCache \cup {u}
              /\ \A v \in DOMAIN performanceCache :
                     v # u => performanceCache'[v] = performanceCache[v]
              /\ new.totalRequests = old.totalRequests + 1
              /\ \/ /\ \E l \in Latencies :
                         new.latencies =
                             (IF n < 100 THEN old.latencies \o <<l>>
                              ELSE SubSeq(old.latencies, 2, n) \o <<l>>)
                    /\ new.successRate =
                         (IF old.successRate + 1 > 10 THEN 10 ELSE old.successRate + 1)
                 \/ /\ new.latencies = old.latencies
                    /\ new.successRate =
                         (IF old.successRate - 2 < 0 THEN 0 ELSE old.successRate - 2)]_vars

\* the 101st latency pushed out the 1st and kept the order of the others, and
\* an upstream not seen before has one failure on its record
C12_Witness ==
    /\ CF \in DOMAIN performanceCache /\ GOOGLE \in DOMAIN performanceCache
    /\ performanceCache[CF].totalRequests = PERFORMANCE_WINDOW + 1
    /\ Len(performanceCache[CF].latencies) = PERFORMANCE_WINDOW
    /\ \A i \in 1..(PERFORMANCE_WINDOW - 1) :
          performanceCache[CF].latencies[i] = WarmLatency(i + 1)
    /\ performanceCache[GOOGLE] = [latencies |-> <<>>, successRate |-> 8, totalRequests |-> 1]

\* the candidate sets of the selection claims: the sequences without
\* repetition over three upstreams, one of which the tracker never records
CandidateSets ==
    {s \in UNION {[1..n -> {QUAD9, CF, GOOGLE}] : n \in 0..3} : NoRepeat(s)}

\* a = b as JavaScript compares two numbers (false when either is NaN)
ScoreEqual(a, b) ==
    CASE a.kind = "nan" \/ b.kind = "nan" -> FALSE
      [] a.kind = "inf" \/ b.kind = "inf" -> a.kind = b.kind
      [] OTHER -> a.n * b.d = b.n * a.d

\* the place of upstream x in the sequence s
IndexOf(s, x) == CHOOSE i \in 1..Len(s) : s[i] = x

\* C13: for every candidate set and every k, in every reachable state of the
\* tracker, selectBestUpstreams returns min(k, size) upstreams of the set,
\* none twice, in ascending order of score, upstreams of equal score in the
\* order of the candidate set, and no omitted upstream scores better than a
\* returned one; the empty set gives the empty result.
C13_SelectTopSorted ==
    \A s \in CandidateSets, k \in 0..4 :
        \A result \in selectBestUpstreams(performanceCache, s, k) :
            LET score(x) == Score(performanceCache, x)
                Returned == {result[i] : i \in 1..Len(result)}
                Omitted == {s[i] : i \in 1..Len(s)} \ Returned
            IN  /\ Len(result) = Min(k, Len(s))
                /\ NoRepeat(result)
                /\ Returned \subseteq {s[i] : i \in 1..Len(s)}
                /\ \A i, j \in 1..Len(result) : i < j =>
                       /\ ~ScoreLess(score(result[j]), score(result[i]))
                       /\ ScoreEqual(score(result[i]), score(result[j]))
                              => IndexOf(s, result[i]) < IndexOf(s, result[j])
                /\ \A x \in Omitted, y \in Returned : ~ScoreLess(score(x), score(y))

\* C14: the candidate set lists the regional upstreams first, in their
\* order, then the configured (global) ones in theirs, every duplicate removed
\* keeping its first occurrence; it names no upstream twice.
C14_RegionalFirstDeduplicated ==
    \A r \in Reqs :
        req[r].clientRegion # "" =>
            LET regional == REGIONAL_UPSTREAMS[req[r].clientRegion]
                global == ConfiguredUpstreams(env)
                pools == regional \o global
                First(x) == CHOOSE i \in 1..Len(pools) :
                                pools[i] = x /\ \A j \in 1..(i - 1) : pools[j] # x
                result == req[r].allUpstreams
            IN  /\ NoRepeat(result)
                /\ {result[i] : i \in 1..Len(result)} = {pools[i] : i \in 1..Len(pools)}
                /\ \A i, j \in 1..Len(result) :
                       i < j => First(result[i]) < First(result[j])

\* regional [A, B] and global [B, C] gave [A, B, C]
C14_Witness ==
    \E r \in Reqs :
        /\ REGIONAL_UPSTREAMS[getClientRegion("DE")] = <<CF, QUAD9>>
        /\ req[r].clientRegion = getClientRegion("DE")
        /\ ConfiguredUpstreams(env) = <<QUAD9, DNSSB>>
        /\ req[r].allUpstreams = <<CF, QUAD9, DNSSB>>

\* C15: the DNS message of every request for which an attempt is launched,
\* GET or POST, is 1 to 512 bytes long; a request with a message outside
\* that range is answered 400 and launches no attempt.
C15_ForwardedPayloadInRange ==
    \A r \in Reqs :
        /\ Started(r, 1) => req[r].dnsQuery >= 1 /\ req[r].dnsQuery <= 512
        /\ req[r].response.body = "Invalid DNS message size" =>
               req[r].response.status = 400 /\ ~Started(r, 1)

NoUpstreamsAvailable == Rejected("No upstreams available")

C17_ReliableBeatsFailing ==
    (/\ P \in DOMAIN performanceCache
     /\ Q \in DOMAIN performanceCache
     /\ Deviation = 0)
        => /\ ScoreLess(Score(performanceCache, P), Score(performanceCache, Q))
           /\ selectBestUpstreams(performanceCache, <<P, Q>>, 1) = {<<P>>}
           /\ selectBestUpstreams(performanceCache, <<Q, P>>, 1) = {<<P>>}

\* 20 requests were recorded, 10 successes of P averaging 50 ms and 10
\* failures of Q
C17_Witness ==
    /\ nrecords = 20
    /\ P \in DOMAIN performanceCache /\ Q \in DOMAIN performanceCache
    /\ performanceCache[P].totalRequests = 10 /\ performanceCache[P].successRate = 10
    /\ Len(performanceCache[P].latencies) = 10
    /\ Score(performanceCache, P) = Num(10 * 500, 10 * 10)
    /\ performanceCache[Q] = [latencies |-> <<>>, successRate |-> 0, totalRequests |-> 10]
    /\ selectBestUpstreams(performanceCache, <<Q, P>>, 1) = {<<P>>}

\* C18: the response to a request answered by a successful race (X-Cache:
\* MISS) carries X-Upstream, naming the winner, and X-Latency.
C18_MissCarriesUpstreamAndLatency ==
    \A r \in Reqs :
        (req[r].pc = "done" /\ req[r].response.xCache = "MISS") =>
            /\ \E k \in {1, 2} :
                   /\ race[r][k].promise.state = "fulfilled"
                   /\ req[r].response.xUpstream = race[r][k].promise.upstream
            /\ req[r].response.xLatency # ""

\* C19: the cache key is the URL alone: a valid request to a URL that an
\* answered request (any method, any payload) was served for with 200 is
\* answered with that response and X-Cache: HIT, launches no attempt and
\* changes no record of the tracker.
C19_PostPayloadsShareCacheEntry ==
    [][\A r, q \in Reqs :
          (/\ req[r].pc = "matching"
           /\ req'[r].pc # "matching"
           /\ req[q].pc = "done"
           /\ req[q].response.status = 200
           /\ req[q].url = req[r].url)
              => /\ req'[r].pc = "done"
                 /\ req'[r].response = [req[q].response EXCEPT !.xCache = "HIT"]
                 /\ race' = race
                 /\ performanceCache' = performanceCache]_vars

\* a POST of 512 bytes was answered from the cache with the response made for
\* a POST of 1 byte to the same URL
C19_Witness ==
    /\ ~req[1].isGetRequest /\ req[1].dnsQuery = 1
    /\ req[1].response.status = 200 /\ req[1].response.xCache = "MISS"
    /\ ~req[2].isGetRequest /\ req[2].dnsQuery = 512
    /\ req[2].url = req[1].url
    /\ req[2].pc = "done"
    /\ req[2].response = [req[1].response EXCEPT !.xCache = "HIT"]
    /\ race[2][1] = NoRace /\ race[2][2] = NoRace

\* C20: for every request that reaches the race, whatever the country of the
\* client and the setting of DOH_UPSTREAMS, the region is one of the six
\* configured ones, the candidate set and the top-3 selection are not empty,
\* and no race and no response ends with 'No upstreams available'.
C20_CandidatesNeverEmpty ==
    \A r \in Reqs :
        /\ req[r].pc \in {"matching", "race1", "race2"} =>
               /\ req[r].clientRegion \in DOMAIN REGIONAL_UPSTREAMS
               /\ req[r].allUpstreams # <<>>
               /\ \A selectedUpstreams \in
                       selectBestUpstreams(performanceCache, req[r].allUpstreams, 3) :
                     selectedUpstreams # <<>>
               /\ raceDoHRequests(req[r].allUpstreams).promise # NoUpstreamsAvailable
        /\ req[r].pc \in {"race1", "race2"} => Started(r, 1)
        /\ \A k \in {1, 2} : race[r][k].promise # NoUpstreamsAvailable
        /\ req[r].response.body # "No upstreams available"

\* a client of an unmapped or mapped country raced the regional pool alone:
\* DOH_UPSTREAMS parsed to no entry
C20_Witness ==
    \E r \in Reqs :
        /\ env \notin {<<"unset">>, <<"">>}
        /\ ConfiguredUpstreams(env) = <<>>
        /\ req[r].pc = "race1"
        /\ req[r].allUpstreams = REGIONAL_UPSTREAMS[req[r].clientRegion]
        /\ race[r][1].upstreams # <<>>
        /\ race[r][1].promise.state = "pending"

====
